---- MODULE Spec2Model ----
(***************************************************************************)
(* Model of the descriptor layer of tk-core:                               *)
(*   python/tank/descriptor/descriptor.py                                  *)
(* create_descriptor (the factory), the Descriptor wrapper (equality,      *)
(* accessors, ensure_local / exists_local / download_local delegation and  *)
(* find_latest_version), over the IO descriptor and bundle cache they      *)
(* delegate to.  The IO descriptor package (io_descriptor), the bundle     *)
(* classes and the filesystem helpers are not part of the sources at hand; *)
(* they are modelled from the specification's sections 4.1 - 4.4 and 5.    *)
(***************************************************************************)
EXTENDS Integers, Sequences, FiniteSets, TLC

VARIABLES
    frame,      \* the activation record of create_descriptor (arguments, locals, position)
    ios,        \* heap of live IODescriptor instances, by instance id
    descs,      \* heap of live Descriptor instances, by instance id
    dirs,       \* cache root directories that exist on disk
    disk,       \* cache path -> number of bundle chunks present there
    disk0,      \* the disk as it was initially (never changes)
    ensured,    \* descriptors on which an ensure_local() call has succeeded
    origin,     \* per Descriptor: the cache roots its create_descriptor call was given
    last,       \* the latest completed Descriptor method call and what it returned
    dl          \* per caller: position and temporary directory of a running download_local()

vars == <<frame, ios, descs, dirs, disk, disk0, ensured, origin, last, dl>>

----------------------------------------------------------------------------
(* Bounds *)

MaxDescs == 3          \* Descriptor instances alive in the descriptor specification
MaxFactoryDescs == 1   \* Descriptor instances alive in the factory specification
MaxCacheDescs == 1     \* Descriptor instances alive in the cache specification
BundleSize == 2        \* chunks a complete bundle consists of
NumCallers == 2        \* callers racing download_local()

----------------------------------------------------------------------------
(* Descriptor.(APP, FRAMEWORK, ENGINE, CONFIG, CORE) = range(5) *)

APP == 0
FRAMEWORK == 1
ENGINE == 2
CONFIG == 3
CORE == 4

None == "None"

----------------------------------------------------------------------------
(* Values of the external collaborators *)

DefaultRoot == "default"                 \* <global cache root>/bundle_cache
OverrideRoot == "override"
FallbackRoots == {"fb1", "fb2"}
Roots == {DefaultRoot, OverrideRoot} \cup FallbackRoots

Backends == {"app_store", "path"}        \* versioned remote backend, mutable path backend

\* Versions are <<major, minor>>; the remote listing of the one bundle modelled.
Available == {<<1, 2>>, <<1, 10>>, <<2, 0>>}

X == -1                                  \* the wildcard token of a constraint pattern
NoPattern == <<>>                        \* constraint_pattern=None

NoIO == [type |-> "none", version |-> <<0, 0>>, root |-> "none", fallbacks |-> <<>>]

----------------------------------------------------------------------------
(* VersionConstraint (section 4.1) *)

\* a pattern <<m, n>> matches v when every concrete leading segment is equal;
\* a wildcard matches that segment and all after it
Matches(pattern, v) ==
    IF pattern = NoPattern THEN TRUE
    ELSE IF pattern[1] = X THEN TRUE
    ELSE IF pattern[1] # v[1] THEN FALSE
    ELSE IF pattern[2] = X THEN TRUE
    ELSE pattern[2] = v[2]

\* numeric segment-by-segment order
VersionLess(v, w) == v[1] < w[1] \/ (v[1] = w[1] /\ v[2] < w[2])

Highest(vs) == CHOOSE v \in vs : \A w \in vs : w = v \/ VersionLess(w, v)

----------------------------------------------------------------------------
(* CacheRootSet (section 4.2) *)

\* the deterministic key of a bundle cache entry
CacheKey(io) == <<io.type, io.version>>

resolve_write(io) == <<io.root, CacheKey(io)>>

\* a directory with the expected marker content: the complete bundle
EntryAt(d, root, key) == d[<<root, key>>] = BundleSize

RECURSIVE ProbeRoots(_, _, _)
ProbeRoots(d, roots, key) ==
    IF roots = <<>> THEN <<>>
    ELSE IF EntryAt(d, Head(roots), key) THEN <<Head(roots), key>>
    ELSE ProbeRoots(d, Tail(roots), key)

\* primary first, then the fallbacks in declared order; <<>> is "absent"
resolve_read(d, io) == ProbeRoots(d, <<io.root>> \o io.fallbacks, CacheKey(io))

\* the chunk is written straight into the cache path, no temporary directory
fetch_chunk_in_place(d, path, tmp) ==
    [disk |-> [d EXCEPT ![path] = IF @ < BundleSize THEN @ + 1 ELSE @], tmp |-> tmp + 1]

\* one fetched chunk lands in the call's private temporary directory
fetch_chunk(d, path, tmp) == [disk |-> d, tmp |-> tmp + 1]

\* the publish step: one atomic rename of the complete temporary directory into
\* the cache path; when the path is already populated the temporary is discarded
publish(d, path, tmp) ==
    IF tmp = BundleSize /\ d[path] = 0 THEN [d EXCEPT ![path] = tmp] ELSE d

----------------------------------------------------------------------------
(* IODescriptor (section 4.3) *)

IODescriptor(type, version, root, fallbacks) ==
    [type |-> type, version |-> version, root |-> root, fallbacks |-> fallbacks]

io_get_version(io) == io.version

io_get_path(io) == resolve_write(io)

io_exists_local(d, io) == resolve_read(d, io) # <<>>

RECURSIVE FetchAll(_, _, _)
FetchAll(d, path, tmp) ==
    IF tmp = BundleSize THEN [disk |-> d, tmp |-> tmp]
    ELSE LET s == fetch_chunk(d, path, tmp) IN FetchAll(s.disk, path, s.tmp)

\* a whole download_local() call seen by a caller nobody races with:
\* ok = the transfer succeeds; otherwise TransferError and the temporary is removed
io_download_local(d, io, ok) ==
    LET s == FetchAll(d, resolve_write(io), 0) IN
    [disk       |-> IF ok THEN publish(s.disk, resolve_write(io), s.tmp) ELSE d,
     downloaded |-> TRUE,
     raised     |-> ~ok]

io_ensure_local(d, io, ok) ==
    IF io_exists_local(d, io)
    THEN [disk |-> d, downloaded |-> FALSE, raised |-> FALSE]
    ELSE io_download_local(d, io, ok)

\* same |-> TRUE: the instance itself is returned (path backend: latest is
\* whatever is on disk); otherwise io is a new instance
io_get_latest_version(io, pattern) ==
    LET found == {v \in Available : Matches(pattern, v)} IN
    IF io.type = "path"
    THEN [error |-> None, same |-> TRUE, io |-> io]
    ELSE IF found = {}
    THEN [error |-> "NoMatchingVersion", same |-> FALSE, io |-> NoIO]
    ELSE [error |-> None, same |-> FALSE,
          io |-> IODescriptor(io.type, Highest(found), io.root, io.fallbacks)]

\* dict form and uri form of a location reference name the same fields
normalize_location(loc) == [type |-> loc.type, version |-> loc.version]

create_io_descriptor(descriptor_type, dict_or_uri, root, fallbacks, resolve_latest, pattern) ==
    LET ref == normalize_location(dict_or_uri)
        io0 == IODescriptor(ref.type, ref.version, root, fallbacks)
        r   == io_get_latest_version(io0, pattern)
    IN  IF ref.type \notin Backends
        THEN [error |-> "UnsupportedBackendError", io |-> NoIO]
        ELSE IF resolve_latest
        THEN [error |-> r.error, io |-> r.io]
        ELSE [error |-> None, io |-> io0]

----------------------------------------------------------------------------
(* create_descriptor *)

get_default_bundle_cache_root == DefaultRoot

IdleFrame ==
    [pc |-> "idle", kind |-> APP, loc |-> [form |-> "dict", type |-> "none", version |-> <<0, 0>>],
     override |-> None, fallbacks |-> <<>>, resolve_latest |-> FALSE, pattern |-> NoPattern,
     root |-> None, queried |-> FALSE, made |-> {}, io |-> NoIO,
     kind_examined |-> FALSE, status |-> "none", cls |-> None]

\* the activation record on entry
NewFrame(kind, loc, override, fallbacks, resolve_latest, pattern) ==
    [IdleFrame EXCEPT !.pc = "root", !.kind = kind, !.loc = loc, !.override = override,
                      !.fallbacks = fallbacks, !.resolve_latest = resolve_latest,
                      !.pattern = pattern, !.root = override, !.status = "running"]

\* ensure_folder_exists dedented out of the if: the override is created too
resolve_root_always_mkdir(f) ==
    IF f.root = None
    THEN [f EXCEPT !.root = get_default_bundle_cache_root, !.queried = TRUE,
                   !.made = {get_default_bundle_cache_root}, !.pc = "io"]
    ELSE [f EXCEPT !.made = {f.root}, !.pc = "io"]

\* if bundle root is not set, fall back on default location
resolve_root(f) ==
    IF f.root = None
    THEN [f EXCEPT !.root = get_default_bundle_cache_root, !.queried = TRUE,
                   !.made = {get_default_bundle_cache_root}, !.pc = "io"]
    ELSE [f EXCEPT !.pc = "io"]

\* the kind is validated up front, before the IO descriptor is constructed
construct_io_kind_first(f) ==
    LET r == create_io_descriptor(f.kind, f.loc, f.root, f.fallbacks,
                                  f.resolve_latest, f.pattern)
    IN  IF f.kind \notin {APP, FRAMEWORK, ENGINE, CONFIG, CORE}
        THEN [f EXCEPT !.pc = "done", !.kind_examined = TRUE, !.status = "TankDescriptorError"]
        ELSE IF r.error # None
        THEN [f EXCEPT !.pc = "done", !.status = r.error]
        ELSE [f EXCEPT !.pc = "dispatch", !.io = r.io]

\* the two root arguments are mixed up: the first fallback root is passed as
\* the bundle cache root
construct_io_fallback_as_root(f) ==
    LET root == IF f.fallbacks = <<>> THEN f.root ELSE Head(f.fallbacks)
        r == create_io_descriptor(f.kind, f.loc, root, f.fallbacks,
                                  f.resolve_latest, f.pattern)
    IN  IF r.error # None
        THEN [f EXCEPT !.pc = "done", !.status = r.error]
        ELSE [f EXCEPT !.pc = "dispatch", !.io = r.io]

\* the fallback roots are not passed on
construct_io_no_fallbacks(f) ==
    LET r == create_io_descriptor(f.kind, f.loc, f.root, <<>>,
                                  f.resolve_latest, f.pattern)
    IN  IF r.error # None
        THEN [f EXCEPT !.pc = "done", !.status = r.error]
        ELSE [f EXCEPT !.pc = "dispatch", !.io = r.io]

\* first construct a low level IO descriptor
construct_io(f) ==
    LET r == create_io_descriptor(f.kind, f.loc, f.root, f.fallbacks,
                                  f.resolve_latest, f.pattern)
    IN  IF r.error # None
        THEN [f EXCEPT !.pc = "done", !.status = r.error]
        ELSE [f EXCEPT !.pc = "dispatch", !.io = r.io]

\* the final else returns a CoreDescriptor instead of raising
DescriptorClass_no_raise(descriptor_type) ==
    IF descriptor_type = APP THEN "AppDescriptor"
    ELSE IF descriptor_type = ENGINE THEN "EngineDescriptor"
    ELSE IF descriptor_type = FRAMEWORK THEN "FrameworkDescriptor"
    ELSE IF descriptor_type = CONFIG THEN "ConfigDescriptor"
    ELSE "CoreDescriptor"

DescriptorClass(descriptor_type) ==
    IF descriptor_type = APP THEN "AppDescriptor"
    ELSE IF descriptor_type = ENGINE THEN "EngineDescriptor"
    ELSE IF descriptor_type = FRAMEWORK THEN "FrameworkDescriptor"
    ELSE IF descriptor_type = CONFIG THEN "ConfigDescriptor"
    ELSE IF descriptor_type = CORE THEN "CoreDescriptor"
    ELSE None

\* now create a high level descriptor and bind that with the low level descriptor
dispatch(f) ==
    IF DescriptorClass(f.kind) # None
    THEN [f EXCEPT !.pc = "done", !.kind_examined = TRUE, !.status = "ok",
                   !.cls = DescriptorClass(f.kind)]
    ELSE [f EXCEPT !.pc = "done", !.kind_examined = TRUE, !.status = "TankDescriptorError"]

\* one statement group of create_descriptor
Step(f) ==
    IF f.pc = "root" THEN resolve_root(f)
    ELSE IF f.pc = "io" THEN construct_io(f)
    ELSE IF f.pc = "dispatch" THEN dispatch(f)
    ELSE f

RECURSIVE RunToEnd(_)
RunToEnd(f) == IF f.pc \in {"done", "idle"} THEN f ELSE RunToEnd(Step(f))

----------------------------------------------------------------------------
(* Descriptor *)

Descriptor(cls, io_descriptor) == [cls |-> cls, io |-> io_descriptor]

get_path(d) == io_get_path(ios[d.io])

version(d) == io_get_version(ios[d.io])

\* isinstance(other, self.__class__): the five classes are siblings
isinstance(other, cls) == other.cls = cls

\* the isinstance guard is missing
eq_no_isinstance(self, other) == get_path(self) = get_path(other)

eq(self, other) ==
    IF isinstance(other, self.cls) THEN get_path(self) = get_path(other) ELSE FALSE

ne(self, other) == ~eq(self, other)

exists_local(d) == io_exists_local(disk, ios[d.io])

\* delegates to the IO descriptor's download_local instead of its ensure_local
ensure_local_downloads(d, ok) == io_download_local(disk, ios[d.io], ok)

ensure_local(d, ok) == io_ensure_local(disk, ios[d.io], ok)

download_local(d, ok) == io_download_local(disk, ios[d.io], ok)

\* latest = self instead of a copy: the swap lands in the original too
find_latest_version_alias(heap, i, io_id) ==
    Append([heap EXCEPT ![i].io = io_id], [heap[i] EXCEPT !.io = io_id])

\* the copy is returned without the swap: it keeps the original's IO descriptor
find_latest_version_no_swap(heap, i, io_id) ==
    Append(heap, heap[i])

\* latest = copy.copy(self); latest._io_descriptor = <the latest I/O descriptor>
\* self is descs[i]; the result is the heap after the call: the copy is appended,
\* bound to io_id
find_latest_version(heap, i, io_id) ==
    Append(heap, [heap[i] EXCEPT !.io = io_id])

----------------------------------------------------------------------------
(* Inputs *)

Callers == 1..NumCallers

Paths == Roots \X (Backends \X Available)

EmptyDisk == [p \in Paths |-> 0]

NoCall == [op |-> "none"]

IdleDownload == [pc |-> "idle", d |-> 0, tmp |-> 0, published |-> {}]

dict_app_1_2 == [form |-> "dict", type |-> "app_store", version |-> <<1, 2>>]
uri_app_1_2 == [form |-> "uri", type |-> "app_store", version |-> <<1, 2>>]
dict_app_2_0 == [form |-> "dict", type |-> "app_store", version |-> <<2, 0>>]
dict_path_1_2 == [form |-> "dict", type |-> "path", version |-> <<1, 2>>]
dict_bogus == [form |-> "dict", type |-> "bogus", version |-> <<1, 2>>]

\* (resolve_latest, constraint_pattern) pairs: v1.x and vx.x match, v3.x does not
LatestArgs == {<<FALSE, NoPattern>>, <<TRUE, <<1, X>>>>, <<TRUE, <<3, X>>>>}

Patterns == {NoPattern, <<1, X>>, <<1, 2>>, <<3, X>>}

\* the heap after a create_descriptor call whose frame ended as f
HeapAfter(f) ==
    /\ dirs' = dirs \cup f.made
    /\ IF f.status = "ok"
       THEN /\ ios' = Append(ios, f.io)
            /\ descs' = Append(descs, Descriptor(f.cls, Len(ios) + 1))
            /\ origin' = Append(origin, [override |-> f.override, fallbacks |-> f.fallbacks])
       ELSE UNCHANGED <<ios, descs, origin>>

----------------------------------------------------------------------------
(* create_descriptor, statement group by statement group *)

Call(kind, loc, override, fallbacks, resolve_latest, pattern) ==
    /\ frame.pc \in {"idle", "done"}
    /\ Len(descs) < MaxFactoryDescs
    /\ frame' = NewFrame(kind, loc, override, fallbacks, resolve_latest, pattern)
    /\ UNCHANGED <<ios, descs, dirs, disk, disk0, ensured, origin, last, dl>>

StepRoot ==
    /\ frame.pc = "root"
    /\ frame' = resolve_root(frame)
    /\ dirs' = dirs \cup frame'.made
    /\ UNCHANGED <<ios, descs, disk, disk0, ensured, origin, last, dl>>

StepIO ==
    /\ frame.pc = "io"
    /\ frame' = construct_io(frame)
    /\ UNCHANGED <<ios, descs, dirs, disk, disk0, ensured, origin, last, dl>>

StepDispatch ==
    /\ frame.pc = "dispatch"
    /\ frame' = dispatch(frame)
    /\ HeapAfter(frame')
    /\ UNCHANGED <<disk, disk0, ensured, last, dl>>

FactoryKinds == (APP - 1)..(CORE + 1)

InitFactory ==
    /\ frame = IdleFrame
    /\ ios = <<>>
    /\ descs = <<>>
    /\ origin = <<>>
    /\ dirs \in {Roots \ {DefaultRoot}, Roots}
    /\ disk = EmptyDisk
    /\ disk0 = EmptyDisk
    /\ ensured = {}
    /\ last = NoCall
    /\ dl = [p \in Callers |-> IdleDownload]

NextFactory ==
    \/ \E kind \in FactoryKinds,
          loc \in {dict_app_1_2, uri_app_1_2, dict_path_1_2, dict_bogus},
          override \in {None, OverrideRoot},
          la \in LatestArgs :
            Call(kind, loc, override, <<>>, la[1], la[2])
    \/ StepRoot
    \/ StepIO
    \/ StepDispatch

SpecFactory == InitFactory /\ [][NextFactory]_vars

----------------------------------------------------------------------------
(* Claims about the factory, under SpecFactory *)

SupportedKinds == {APP, FRAMEWORK, ENGINE, CONFIG, CORE}

ExpectedClass(kind) ==
    CASE kind = 0 -> "AppDescriptor"
      [] kind = 1 -> "FrameworkDescriptor"
      [] kind = 2 -> "EngineDescriptor"
      [] kind = 3 -> "ConfigDescriptor"
      [] kind = 4 -> "CoreDescriptor"
      [] OTHER -> None

Returned == frame.pc = "done" /\ frame.status = "ok"

\* the Descriptor the finished call returned wraps the IO descriptor built in it
WrapsBuiltIO ==
    /\ Len(descs) >= 1
    /\ descs[Len(descs)].cls = ExpectedClass(frame.kind)
    /\ descs[Len(descs)].io = Len(ios)
    /\ ios[Len(ios)] = frame.io
    /\ \A i \in 1..(Len(descs) - 1) : descs[i].io # Len(ios)

\* C4 as stated: a finished create_descriptor call with a kind in
\* APP..CORE has returned the matching Descriptor variant wrapping the IO
\* descriptor built for the call; with any other kind it has failed with the
\* unsupported-descriptor-kind error and returned no Descriptor.
C4_Original ==
    frame.pc = "done" =>
        IF frame.kind \in SupportedKinds
        THEN Returned /\ WrapsBuiltIO
        ELSE frame.status = "TankDescriptorError" /\ frame.cls = None

\* C4 amended: the same, for the calls in which create_io_descriptor returned
\* an IO descriptor; a call in which it raised ends with that error, whatever
\* the kind, and returns no Descriptor.
C4_KindDispatch ==
    frame.pc = "done" =>
        IF frame.io # NoIO
        THEN IF frame.kind \in SupportedKinds
             THEN Returned /\ WrapsBuiltIO
             ELSE frame.status = "TankDescriptorError" /\ frame.cls = None
        ELSE /\ frame.status \in {"UnsupportedBackendError", "NoMatchingVersion"}
             /\ frame.cls = None

C4_Witness ==
    /\ frame.pc = "done"
    /\ frame.io # NoIO
    /\ frame.kind = CORE + 1
    /\ frame.status = "TankDescriptorError"

\* C9: with a cache root override the default root provider is not queried and
\* the factory creates no directory; without one, from the moment the IO
\* descriptor is about to be constructed the default root has been substituted
\* and exists on disk, and it is the root the IO descriptor is built with.
C9_DefaultRootOnlyWithoutOverride ==
    /\ frame.pc # "idle" /\ frame.override # None =>
          /\ ~frame.queried
          /\ frame.made = {}
          /\ frame.root = frame.override
    /\ frame.pc \in {"io", "dispatch", "done"} /\ frame.override = None =>
          /\ frame.queried
          /\ frame.root = DefaultRoot
          /\ DefaultRoot \in dirs
    /\ frame.io # NoIO =>
          frame.io.root = (IF frame.override = None THEN DefaultRoot ELSE frame.override)

C9_Witness ==
    /\ frame.pc = "io"
    /\ frame.override = None
    /\ frame.made = {DefaultRoot}
    /\ frame.io = NoIO

\* C10: the kind is examined only after the default-root substitution and the
\* construction of the IO descriptor (latest-version resolution included) are
\* complete; the unsupported-kind error therefore comes only with an IO
\* descriptor built, and a call whose IO descriptor construction fails ends with
\* that failure even when its kind is unsupported.
C10_KindExaminedLast ==
    /\ frame.kind_examined \/ frame.status = "TankDescriptorError" =>
          /\ frame.io # NoIO
          /\ frame.root # None
          /\ frame.override = None => frame.queried /\ DefaultRoot \in dirs
          /\ frame.resolve_latest /\ frame.io.type # "path" =>
                /\ frame.io.version \in Available
                /\ Matches(frame.pattern, frame.io.version)
                /\ \A v \in Available :
                      Matches(frame.pattern, v) => ~VersionLess(frame.io.version, v)
    /\ frame.pc = "done" /\ frame.io = NoIO =>
          /\ ~frame.kind_examined
          /\ frame.status \in {"UnsupportedBackendError", "NoMatchingVersion"}

C10_Witness ==
    /\ frame.pc = "done"
    /\ frame.kind \notin SupportedKinds
    /\ frame.status = "UnsupportedBackendError"

----------------------------------------------------------------------------
(* The Descriptor methods, each call as a whole *)

\* create_descriptor from call to return
CreateDescriptor(bound, kind, loc, override, fallbacks, resolve_latest, pattern) ==
    /\ frame.pc = "idle"
    /\ Len(descs) < bound
    /\ LET f == RunToEnd(NewFrame(kind, loc, override, fallbacks, resolve_latest, pattern))
       IN  /\ HeapAfter(f)
           /\ last' = [op |-> "create_descriptor", ok |-> f.status = "ok"]
    /\ UNCHANGED <<frame, disk, disk0, ensured, dl>>

\* d2 = descs[i].find_latest_version(pattern)
FindLatestVersion(i, pattern) ==
    /\ frame.pc = "idle"
    /\ Len(descs) < MaxDescs
    /\ LET r == io_get_latest_version(ios[descs[i].io], pattern)
           io_id == IF r.same THEN descs[i].io ELSE Len(ios) + 1
       IN  IF r.error # None
           THEN /\ last' = [op |-> "find_latest_version", ok |-> FALSE, a |-> i, b |-> i]
                /\ UNCHANGED <<ios, descs, origin>>
           ELSE /\ ios' = IF r.same THEN ios ELSE Append(ios, r.io)
                /\ descs' = find_latest_version(descs, i, io_id)
                /\ origin' = Append(origin, origin[i])
                /\ last' = [op |-> "find_latest_version", ok |-> TRUE, a |-> i,
                            b |-> Len(descs) + 1]
    /\ UNCHANGED <<frame, dirs, disk, disk0, ensured, dl>>

\* descs[i] == descs[j] and descs[i] != descs[j]
Compare(i, j) ==
    /\ frame.pc = "idle"
    /\ last' = [op |-> "eq", ok |-> TRUE, a |-> i, b |-> j,
                eq |-> eq(descs[i], descs[j]), ne |-> ne(descs[i], descs[j])]
    /\ UNCHANGED <<frame, ios, descs, dirs, disk, disk0, ensured, origin, dl>>

Init ==
    /\ frame = IdleFrame
    /\ ios = <<>>
    /\ descs = <<>>
    /\ origin = <<>>
    /\ dirs = Roots \ {DefaultRoot}
    /\ disk = EmptyDisk
    /\ disk0 = EmptyDisk
    /\ ensured = {}
    /\ last = NoCall
    /\ dl = [p \in Callers |-> IdleDownload]

Next ==
    \/ \E kind \in {APP, ENGINE},
          loc \in {dict_app_1_2, uri_app_1_2, dict_app_2_0, dict_path_1_2} :
            CreateDescriptor(MaxDescs, kind, loc, OverrideRoot, <<>>, FALSE, NoPattern)
    \/ \E i \in 1..Len(descs), pattern \in Patterns : FindLatestVersion(i, pattern)
    \/ \E i, j \in 1..Len(descs) : Compare(i, j)

Spec == Init /\ [][Next]_vars

----------------------------------------------------------------------------
(* Claims about the Descriptor wrapper, under Spec *)

\* C1: no step, find_latest_version included, changes the IO descriptor bound
\* to an existing Descriptor, nor its version or path.
C1_FindLatestLeavesSelfUnchanged ==
    [][\A i \in 1..Len(descs) :
          /\ Len(descs') >= i
          /\ descs'[i] = descs[i]
          /\ Len(ios') >= descs[i].io
          /\ ios'[descs'[i].io] = ios[descs[i].io]
          /\ io_get_version(ios'[descs'[i].io]) = io_get_version(ios[descs[i].io])
          /\ io_get_path(ios'[descs'[i].io]) = io_get_path(ios[descs[i].io])]_vars

\* d2 = d1.find_latest_version(..) returned a Descriptor of another version
C1_Witness ==
    /\ last.op = "find_latest_version"
    /\ last.ok
    /\ version(descs[last.b]) # version(descs[last.a])
    /\ Len(descs) = 3

SharesIO(i, j) == i # j /\ descs[i].io = descs[j].io

\* C2 as stated: no IODescriptor instance backs two Descriptors.
C2_Original ==
    \A i, j \in 1..Len(descs) : ~SharesIO(i, j)

\* C2 amended: two Descriptors are bound to the same IODescriptor instance only
\* when its backend is the path backend; find_latest_version on any other
\* backend binds the returned Descriptor to a new instance.
C2_SharedOnlyForPathBackend ==
    /\ \A i, j \in 1..Len(descs) : SharesIO(i, j) => ios[descs[i].io].type = "path"
    /\ last.op = "find_latest_version" /\ last.ok /\ ios[descs[last.a].io].type # "path" =>
          \A i \in 1..(Len(descs) - 1) : descs[i].io # descs[last.b].io

C2_Witness ==
    /\ last.op = "find_latest_version"
    /\ last.ok
    /\ ios[descs[last.a].io].type = "app_store"
    /\ descs[last.b].io # descs[last.a].io
    /\ version(descs[last.b]) = version(descs[last.a])

\* C3 as stated: a == b exactly when the two paths are equal, and a != b is
\* its negation.
C3_Original ==
    last.op = "eq" =>
        /\ last.eq <=> (io_get_path(ios[descs[last.a].io]) = io_get_path(ios[descs[last.b].io]))
        /\ last.ne <=> ~last.eq

\* C3 amended: a == b exactly when b is an instance of a's class and the two
\* paths are equal, whatever location references they were built from; a != b
\* is its negation.
C3_EqualityIsClassAndPath ==
    last.op = "eq" =>
        /\ last.eq <=> /\ descs[last.b].cls = descs[last.a].cls
                       /\ io_get_path(ios[descs[last.a].io]) = io_get_path(ios[descs[last.b].io])
        /\ last.ne <=> ~last.eq

\* two distinct Descriptors over distinct IODescriptors compare equal
C3_Witness ==
    /\ last.op = "eq"
    /\ last.eq
    /\ last.a # last.b
    /\ descs[last.a].io # descs[last.b].io

----------------------------------------------------------------------------
(* The cache operations of a Descriptor, each call as a whole *)

\* the roots that hold directories under disk d
DirsOf(d) == {p[1] : p \in {q \in Paths : d[q] # 0}}

\* the primary root a create_descriptor call asked for
Primary(o) == IF o.override = None THEN DefaultRoot ELSE o.override

\* the roots a create_descriptor call declared, in read order
Declared(o) == <<Primary(o)>> \o o.fallbacks

\* some declared root holds the complete entry of descs[i]
HeldSomewhere(d, i) ==
    \E k \in 1..Len(Declared(origin[i])) :
        d[<<Declared(origin[i])[k], CacheKey(ios[descs[i].io])>>] = BundleSize

EnsureLocal(i, ok) ==
    /\ frame.pc = "idle"
    /\ LET r == ensure_local(descs[i], ok)
       IN  /\ disk' = r.disk
           /\ dirs' = dirs \cup DirsOf(r.disk)
           /\ ensured' = IF r.raised THEN ensured ELSE ensured \cup {i}
           /\ last' = [op |-> "ensure_local", ok |-> ~r.raised, a |-> i,
                       downloaded |-> r.downloaded, existed |-> HeldSomewhere(disk, i),
                       was_ensured |-> i \in ensured, path |-> <<>>]
    /\ UNCHANGED <<frame, ios, descs, disk0, origin, dl>>

DownloadLocal(i, ok) ==
    /\ frame.pc = "idle"
    /\ LET r == download_local(descs[i], ok)
       IN  /\ disk' = r.disk
           /\ dirs' = dirs \cup DirsOf(r.disk)
           /\ last' = [op |-> "download_local", ok |-> ~r.raised, a |-> i,
                       downloaded |-> r.downloaded, existed |-> HeldSomewhere(disk, i),
                       was_ensured |-> i \in ensured, path |-> <<>>]
    /\ UNCHANGED <<frame, ios, descs, disk0, ensured, origin, dl>>

ExistsLocal(i) ==
    /\ frame.pc = "idle"
    /\ last' = [op |-> "exists_local", ok |-> exists_local(descs[i]), a |-> i,
                downloaded |-> FALSE, existed |-> HeldSomewhere(disk, i),
                was_ensured |-> i \in ensured,
                path |-> resolve_read(disk, ios[descs[i].io])]
    /\ UNCHANGED <<frame, ios, descs, dirs, disk, disk0, ensured, origin, dl>>

\* external cache eviction: an entry of a writable root is removed
Evict(path) ==
    /\ frame.pc = "idle"
    /\ path[1] \notin FallbackRoots
    /\ disk[path] = BundleSize
    /\ disk' = [disk EXCEPT ![path] = 0]
    /\ ensured' = {}
    /\ last' = [op |-> "evict", ok |-> TRUE, a |-> 0, downloaded |-> FALSE,
                existed |-> TRUE, was_ensured |-> FALSE, path |-> path]
    /\ UNCHANGED <<frame, ios, descs, dirs, disk0, origin, dl>>

K12 == <<"app_store", <<1, 2>>>>

\* the entry of app_store v1.2 may be present in any of the two fallback roots
\* and in the override root before the first call
InitCache ==
    /\ frame = IdleFrame
    /\ ios = <<>>
    /\ descs = <<>>
    /\ origin = <<>>
    /\ \E held \in SUBSET {"fb1", "fb2", OverrideRoot} :
          /\ disk0 = [p \in Paths |-> IF p[2] = K12 /\ p[1] \in held THEN BundleSize ELSE 0]
          /\ disk = disk0
    /\ dirs = Roots \ {DefaultRoot}
    /\ ensured = {}
    /\ last = NoCall
    /\ dl = [p \in Callers |-> IdleDownload]

NextCache ==
    \/ \E loc \in {dict_app_1_2, dict_app_2_0},
          override \in {None, OverrideRoot},
          fallbacks \in {<<>>, <<"fb1", "fb2">>, <<"fb2", "fb1">>} :
            CreateDescriptor(MaxCacheDescs, APP, loc, override, fallbacks, FALSE, NoPattern)
    \/ \E i \in 1..Len(descs), ok \in BOOLEAN : EnsureLocal(i, ok)
    \/ \E i \in 1..Len(descs), ok \in BOOLEAN : DownloadLocal(i, ok)
    \/ \E i \in 1..Len(descs) : ExistsLocal(i)
    \/ \E path \in Paths : Evict(path)

SpecCache == InitCache /\ [][NextCache]_vars

----------------------------------------------------------------------------
(* Claims about the bundle cache, under SpecCache *)

\* C5: an ensure_local() call downloads exactly when no declared root held the
\* entry; a call on a descriptor on which an earlier ensure_local() succeeded,
\* with no eviction since, downloads nothing; after a successful call the
\* item exists locally.
C5_EnsureLocalIdempotent ==
    last.op = "ensure_local" =>
        /\ last.downloaded <=> ~last.existed
        /\ last.was_ensured => ~last.downloaded /\ last.ok
        /\ last.ok => HeldSomewhere(disk, last.a)

\* the second ensure_local() on a descriptor whose first call had to download
C5_Witness ==
    /\ last.op = "ensure_local"
    /\ last.was_ensured
    /\ ~last.downloaded
    /\ disk[resolve_write(ios[descs[last.a].io])] = BundleSize
    /\ disk0[resolve_write(ios[descs[last.a].io])] = 0

\* C7: the fallback roots hold what they held initially, and every bundle
\* materialized since lies under the primary root (the override if given,
\* otherwise the default root) of a Descriptor of that bundle.
C7_WritesOnlyToPrimary ==
    /\ \A p \in Paths : p[1] \in FallbackRoots => disk[p] = disk0[p]
    /\ \A p \in Paths :
          disk[p] # 0 /\ disk0[p] = 0 =>
              \E i \in 1..Len(descs) :
                  p = <<Primary(origin[i]), CacheKey(ios[descs[i].io])>>
    /\ dirs \subseteq (Roots \ {DefaultRoot}) \cup {Primary(origin[i]) : i \in 1..Len(descs)}

\* a download through a Descriptor with fallback roots, whose entry a fallback
\* root already held, has put the bundle under the default root
C7_Witness ==
    /\ last.op = "download_local"
    /\ last.ok
    /\ last.existed
    /\ origin[last.a].override = None
    /\ origin[last.a].fallbacks # <<>>
    /\ disk[<<DefaultRoot, CacheKey(ios[descs[last.a].io])>>] = BundleSize

\* the declared roots that hold the entry, by position in read order
Hits(i) ==
    {k \in 1..Len(Declared(origin[i])) :
        disk[<<Declared(origin[i])[k], CacheKey(ios[descs[i].io])>>] = BundleSize}

\* C8: resolve_read returns the entry of the first declared root (primary, then
\* the fallbacks in declared order) that holds it, the primary's when the
\* primary holds it, and absent when none does; exists_local() is true exactly
\* when it returns an entry.
C8_ReadPrecedence ==
    last.op = "exists_local" =>
        IF Hits(last.a) = {}
        THEN last.path = <<>> /\ ~last.ok
        ELSE /\ last.ok
             /\ \E k \in Hits(last.a) :
                   /\ \A m \in Hits(last.a) : k <= m
                   /\ last.path = <<Declared(origin[last.a])[k], CacheKey(ios[descs[last.a].io])>>

\* the entry is in the primary root and in a fallback root; the primary's is read
C8_Witness ==
    /\ last.op = "exists_local"
    /\ last.ok
    /\ Cardinality(Hits(last.a)) >= 2
    /\ last.path[1] = Primary(origin[last.a])

----------------------------------------------------------------------------
(* download_local() step by step, several callers racing for one cache entry *)

WritePath(i) == resolve_write(ios[descs[i].io])

DownloadBegin(p, i) ==
    /\ dl[p].pc = "idle"
    /\ dl' = [dl EXCEPT ![p] = [@ EXCEPT !.pc = "fetch", !.d = i, !.tmp = 0]]
    /\ UNCHANGED <<frame, ios, descs, dirs, disk, disk0, ensured, origin, last>>

DownloadChunk(p) ==
    /\ dl[p].pc = "fetch"
    /\ dl[p].tmp < BundleSize
    /\ LET s == fetch_chunk(disk, WritePath(dl[p].d), dl[p].tmp)
       IN  /\ disk' = s.disk
           /\ dl' = [dl EXCEPT ![p].tmp = s.tmp]
    /\ UNCHANGED <<frame, ios, descs, dirs, disk0, ensured, origin, last>>

\* TransferError at any point of the transfer: the temporary directory is removed
DownloadFail(p) ==
    /\ dl[p].pc = "fetch"
    /\ dl' = [dl EXCEPT ![p] = [@ EXCEPT !.pc = "idle", !.d = 0, !.tmp = 0]]
    /\ disk' = disk
    /\ last' = [op |-> "download_step", ok |-> FALSE, a |-> dl[p].d, caller |-> p,
                tmp |-> dl[p].tmp, before |-> disk[WritePath(dl[p].d)],
                after |-> disk'[WritePath(dl[p].d)]]
    /\ UNCHANGED <<frame, ios, descs, dirs, disk0, ensured, origin>>

DownloadPublish(p) ==
    /\ dl[p].pc = "fetch"
    /\ dl[p].tmp = BundleSize
    /\ disk' = publish(disk, WritePath(dl[p].d), dl[p].tmp)
    /\ dirs' = dirs \cup DirsOf(disk')
    /\ dl' = [dl EXCEPT ![p] = [@ EXCEPT !.pc = "idle", !.d = 0, !.tmp = 0,
                  !.published = IF disk[WritePath(dl[p].d)] = 0
                                THEN @ \cup {WritePath(dl[p].d)} ELSE @]]
    /\ last' = [op |-> "download_step", ok |-> TRUE, a |-> dl[p].d, caller |-> p,
                tmp |-> dl[p].tmp, before |-> disk[WritePath(dl[p].d)],
                after |-> disk'[WritePath(dl[p].d)]]
    /\ UNCHANGED <<frame, ios, descs, disk0, ensured, origin>>

\* the callers hold two Descriptors of app_store v1.2, built from the dict and
\* from the uri form, both under the override root: one cache entry
InitPublish ==
    /\ frame = IdleFrame
    /\ LET f1 == RunToEnd(NewFrame(APP, dict_app_1_2, OverrideRoot, <<>>, FALSE, NoPattern))
           f2 == RunToEnd(NewFrame(APP, uri_app_1_2, OverrideRoot, <<>>, FALSE, NoPattern))
       IN  /\ ios = <<f1.io, f2.io>>
           /\ descs = <<Descriptor(f1.cls, 1), Descriptor(f2.cls, 2)>>
           /\ origin = <<[override |-> OverrideRoot, fallbacks |-> <<>>],
                         [override |-> OverrideRoot, fallbacks |-> <<>>]>>
    /\ dirs = Roots \ {DefaultRoot}
    /\ disk = EmptyDisk
    /\ disk0 = EmptyDisk
    /\ ensured = {}
    /\ last = NoCall
    /\ dl = [p \in Callers |-> IdleDownload]

NextPublish ==
    \/ \E p \in Callers, i \in 1..Len(descs) : DownloadBegin(p, i)
    \/ \E p \in Callers : DownloadChunk(p)
    \/ \E p \in Callers : DownloadFail(p)
    \/ \E p \in Callers : DownloadPublish(p)
    \/ \E i \in 1..Len(descs) : ExistsLocal(i)

SpecPublish == InitPublish /\ [][NextPublish]_vars

----------------------------------------------------------------------------
(* Claim about the atomic publish, under SpecPublish *)

\* C6: whatever the interleaving of the callers' download_local() steps and
\* failures, every cache path is either absent or holds the complete bundle;
\* an entry is there only when some caller's download succeeded in publishing
\* it, an exists_local() that answers true has read a complete entry, and a
\* failed download_local() leaves the path as it was.
C6_AtomicPublish ==
    /\ \A p \in Paths : disk[p] \in {0, BundleSize}
    /\ \A p \in Paths : disk[p] # disk0[p] => \E c \in Callers : p \in dl[c].published
    /\ last.op = "exists_local" /\ last.ok => disk[last.path] = BundleSize
    /\ last.op = "download_step" /\ ~last.ok /\ (\A c \in Callers : dl[c].published = {}) =>
          /\ last.after = last.before
          /\ ~exists_local(descs[last.a])

\* a caller failed with half of the bundle fetched while another caller was in
\* the middle of fetching the same entry
C6_Witness ==
    /\ last.op = "download_step"
    /\ ~last.ok
    /\ last.tmp = 1
    /\ \E c \in Callers :
          /\ c # last.caller
          /\ dl[c].pc = "fetch"
          /\ dl[c].tmp = 1
          /\ WritePath(dl[c].d) = WritePath(last.a)
          /\ dl[c].d # last.a

====
